---- MODULE Spec2Model ----
(***************************************************************************)
(* A model of the Mancala rules engine of src/Mancala.py: the board, the   *)
(* move validator, the seed distributor, the capture rule, the round loop  *)
(* and the interactive move source.                                        *)
(*                                                                         *)
(* The board is a function over the source's indexes 0..13; the board of a *)
(* freshly constructed game is the empty list <<>>.                        *)
(***************************************************************************)
EXTENDS Integers, Sequences, FiniteSets, TLC

VARIABLES
    board,          \* Mancala.board
    player_tracker, \* play_round's local: the active player
    pc,             \* where the program is: "play", "turn", "over", "exit", "crash", "fn"
    played,         \* history: the pits played so far in this round
    msg,            \* the last message the program printed (its kind)
    turn,           \* history: the last operation applied, its arguments and results
    calls           \* number of direct calls made on the engine (function-level runs)

vars == <<board, player_tracker, pc, played, msg, turn, calls>>

(***************************************************************************)
(* Bounds of the exploration.                                              *)
(***************************************************************************)
\* Moves of a round for which the move source is unconstrained.
MaxMoves == 4
\* Largest seed count placed in the selected slot of a function-level input.
MaxSeeds == 27
\* Largest seed count of the other slots of a function-level input.
MaxBg == 1
\* Direct calls on the engine in one function-level run.
MaxCalls == 2

(***************************************************************************)
(* Board setup (module constants)                                          *)
(***************************************************************************)
\* PITS = "abcdef.ghijkl"; here a sequence of characters, position i+1 is index i.
PITS == <<"a", "b", "c", "d", "e", "f", ".", "g", "h", "i", "j", "k", "l">>

\* STORES = [6, 13]; STORES[p] of the source is Store(p).
STORES == <<6, 13>>

Store(player) == STORES[player + 1]

Slots == 0..13

Players == {0, 1}

\* sum(self.board[lo:hi]) for a slice lo..hi-1
RECURSIVE SumSlice(_, _, _)
SumSlice(b, lo, hi) ==
    IF lo >= hi THEN 0 ELSE b[lo] + SumSlice(b, lo + 1, hi)

\* ([4]*6 + [0]) * 2
InitialBoard == [i \in Slots |-> IF i \in {6, 13} THEN 0 ELSE 4]

(***************************************************************************)
(* Mancala.is_own_pit                                                      *)
(***************************************************************************)
is_own_pit(pit, player) ==
    LET first_pit == IF player = 0 THEN 0 ELSE 7
        store     == first_pit + 6
    IN  first_pit <= pit /\ pit <= store

\* Variant of validate_move that tests for an empty pit before ownership.
validate_move_emptyFirst(b, pit_index, player_index) ==
    IF pit_index \in {STORES[1], STORES[2]} THEN "StoreNotSelectable"
    ELSE IF b[pit_index] = 0 THEN "EmptyPit"
    ELSE IF is_own_pit(pit_index, player_index) = FALSE THEN "NotYourPit"
    ELSE "Ok"

(***************************************************************************)
(* Mancala.validate_move: the ValueError raised, or "Ok" when it returns.  *)
(***************************************************************************)
validate_move(b, pit_index, player_index) ==
    IF pit_index \in {STORES[1], STORES[2]} THEN "StoreNotSelectable"
    ELSE IF is_own_pit(pit_index, player_index) = FALSE THEN "NotYourPit"
    ELSE IF b[pit_index] = 0 THEN "EmptyPit"
    ELSE "Ok"

\* Variant of check_capture that forgets line 158: the landing pit keeps its
\* seed.
check_capture_keepsLanded(b, last_seed_index, player_index) ==
    IF /\ is_own_pit(last_seed_index, player_index) = TRUE
       /\ last_seed_index # Store(player_index)
       /\ b[last_seed_index] = 1
    THEN LET opp_pit_index      == 12 - last_seed_index
             player_store_index == Store(player_index)
             b1 == [b  EXCEPT ![player_store_index] = @ + b[opp_pit_index]]
             b2 == [b1 EXCEPT ![player_store_index] = @ + b1[last_seed_index]]
             b3 == [b2 EXCEPT ![opp_pit_index] = 0]
         IN  b3
    ELSE b

\* Variant of check_capture that does not test for a single seed in the
\* landing pit.
check_capture_anyCount(b, last_seed_index, player_index) ==
    IF /\ is_own_pit(last_seed_index, player_index) = TRUE
       /\ last_seed_index # Store(player_index)
    THEN LET opp_pit_index      == 12 - last_seed_index
             player_store_index == Store(player_index)
             b1 == [b  EXCEPT ![player_store_index] = @ + b[opp_pit_index]]
             b2 == [b1 EXCEPT ![player_store_index] = @ + b1[last_seed_index]]
             b3 == [b2 EXCEPT ![opp_pit_index] = 0]
             b4 == [b3 EXCEPT ![last_seed_index] = 0]
         IN  b4
    ELSE b

\* Variant of check_capture that assigns the captured seeds to the store
\* instead of adding them.
check_capture_assign(b, last_seed_index, player_index) ==
    IF /\ is_own_pit(last_seed_index, player_index) = TRUE
       /\ last_seed_index # Store(player_index)
       /\ b[last_seed_index] = 1
    THEN LET opp_pit_index      == 12 - last_seed_index
             player_store_index == Store(player_index)
             b2 == [b  EXCEPT ![player_store_index] =
                                   b[opp_pit_index] + b[last_seed_index]]
             b3 == [b2 EXCEPT ![opp_pit_index] = 0]
             b4 == [b3 EXCEPT ![last_seed_index] = 0]
         IN  b4
    ELSE b

\* Variant of check_capture that forgets line 155: the landed seed is zeroed
\* without being added to the store.
check_capture_dropsLanded(b, last_seed_index, player_index) ==
    IF /\ is_own_pit(last_seed_index, player_index) = TRUE
       /\ last_seed_index # Store(player_index)
       /\ b[last_seed_index] = 1
    THEN LET opp_pit_index      == 12 - last_seed_index
             player_store_index == Store(player_index)
             b1 == [b  EXCEPT ![player_store_index] = @ + b[opp_pit_index]]
             b3 == [b1 EXCEPT ![opp_pit_index] = 0]
             b4 == [b3 EXCEPT ![last_seed_index] = 0]
         IN  b4
    ELSE b

(***************************************************************************)
(* Mancala.check_capture: the board after the call.                        *)
(***************************************************************************)
check_capture(b, last_seed_index, player_index) ==
    IF /\ is_own_pit(last_seed_index, player_index) = TRUE
       /\ last_seed_index # Store(player_index)
       /\ b[last_seed_index] = 1
    THEN LET opp_pit_index      == 12 - last_seed_index
             player_store_index == Store(player_index)
             b1 == [b  EXCEPT ![player_store_index] = @ + b[opp_pit_index]]
             b2 == [b1 EXCEPT ![player_store_index] = @ + b1[last_seed_index]]
             b3 == [b2 EXCEPT ![opp_pit_index] = 0]
             b4 == [b3 EXCEPT ![last_seed_index] = 0]
         IN  b4
    ELSE b

(***************************************************************************)
(* Mancala.distribute_seeds.  The loop state is the board and the locals   *)
(* count, count2 and pit; pit is unbound (-1 here) before the first pass.  *)
(***************************************************************************)
\* Variant of the loop body that does not record the pass over the
\* opponent's store (count2 is not incremented).
SowStep_noPass(st, selected_pit, player_index) ==
    LET count == st.count + 1
        pit   == (selected_pit + count + st.count2) % 14
        OL    == Store(1 - player_index)
    IN  IF pit # OL
        THEN [board  |-> [st.board EXCEPT ![pit] = @ + 1],
              count  |-> count,
              count2 |-> st.count2,
              pit    |-> pit]
        ELSE [board  |-> [st.board EXCEPT ![(pit + 1) % 14] = @ + 1],
              count  |-> count,
              count2 |-> st.count2,
              pit    |-> pit]

\* Variant of the loop body that does not skip the opponent's store.
SowStep_intoStore(st, selected_pit, player_index) ==
    LET count == st.count + 1
        pit   == (selected_pit + count + st.count2) % 14
    IN  [board  |-> [st.board EXCEPT ![pit] = @ + 1],
         count  |-> count,
         count2 |-> st.count2,
         pit    |-> pit]

\* Variant of the loop body whose line 192 adds a seed to the opponent's
\* store as well.
SowStep_alsoStore(st, selected_pit, player_index) ==
    LET count == st.count + 1
        pit   == (selected_pit + count + st.count2) % 14
        OL    == Store(1 - player_index)
    IN  IF pit # OL
        THEN [board  |-> [st.board EXCEPT ![pit] = @ + 1],
              count  |-> count,
              count2 |-> st.count2,
              pit    |-> pit]
        ELSE [board  |-> [st.board EXCEPT ![pit] = @ + 1,
                                          ![(pit + 1) % 14] = @ + 1],
              count  |-> count,
              count2 |-> st.count2 + 1,
              pit    |-> pit]

\* Variant of the loop body that sows towards decreasing indexes.
SowStep_backwards(st, selected_pit, player_index) ==
    LET count == st.count + 1
        pit   == (selected_pit + 13 * (count + st.count2)) % 14
        OL    == Store(1 - player_index)
    IN  IF pit # OL
        THEN [board  |-> [st.board EXCEPT ![pit] = @ + 1],
              count  |-> count,
              count2 |-> st.count2,
              pit    |-> pit]
        ELSE [board  |-> [st.board EXCEPT ![(pit + 13) % 14] = @ + 1],
              count  |-> count,
              count2 |-> st.count2 + 1,
              pit    |-> pit]

\* One pass of the while loop (lines 184-194).
SowStep(st, selected_pit, player_index) ==
    LET count == st.count + 1
        pit   == (selected_pit + count + st.count2) % 14
        OL    == Store(1 - player_index)
    IN  IF pit # OL
        THEN [board  |-> [st.board EXCEPT ![pit] = @ + 1],
              count  |-> count,
              count2 |-> st.count2,
              pit    |-> pit]
        ELSE [board  |-> [st.board EXCEPT ![(pit + 1) % 14] = @ + 1],
              count  |-> count,
              count2 |-> st.count2 + 1,
              pit    |-> pit]

\* Variant of the loop entry that forgets line 179: the selected pit keeps
\* its seeds.
SowStart_keepsSeeds(b, selected_pit) ==
    [board  |-> b,
     count  |-> 0,
     count2 |-> 0,
     pit    |-> -1]

\* The state in which the loop is entered (lines 178-182).
SowStart(b, selected_pit) ==
    [board  |-> [b EXCEPT ![selected_pit] = 0],
     count  |-> 0,
     count2 |-> 0,
     pit    |-> -1]

\* while count < num_seeds
RECURSIVE SowLoop(_, _, _, _)
SowLoop(st, num_seeds, selected_pit, player_index) ==
    IF st.count < num_seeds
    THEN SowLoop(SowStep(st, selected_pit, player_index),
                 num_seeds, selected_pit, player_index)
    ELSE st

\* The board after the call and the value returned.
distribute_seeds(b, selected_pit, player_index) ==
    LET fin == SowLoop(SowStart(b, selected_pit), b[selected_pit],
                       selected_pit, player_index)
    IN  [board |-> fin.board, ret |-> fin.pit]

\* Variant of the turn pointer update that never grants the extra turn.
next_player_alwaysFlip(last_seed_index, player_tracker_) ==
    1 - player_tracker_

\* play_round, lines 215-218: who acts after a move whose distribute_seeds
\* returned last_seed_index.
next_player(last_seed_index, player_tracker_) ==
    IF last_seed_index = Store(player_tracker_)
    THEN player_tracker_
    ELSE 1 - player_tracker_

(***************************************************************************)
(* Mancala.game_over and Mancala.score                                     *)
(***************************************************************************)
\* Variant of game_over that looks at player 0's pits only.
game_over_firstSide(b) == SumSlice(b, 0, 6) = 0

\* Variant of game_over that needs both sides to be empty.
game_over_both(b) == SumSlice(b, 0, 6) = 0 /\ SumSlice(b, 7, 13) = 0

game_over(b) == SumSlice(b, 0, 6) = 0 \/ SumSlice(b, 7, 13) = 0

\* Variant of score that leaves the store out of the slice.
score_pitsOnly(b, player) ==
    LET start == IF player = 0 THEN 0 ELSE 7
        end   == start + 6
    IN  SumSlice(b, start, end)

score(b, player) ==
    LET start == IF player = 0 THEN 0 ELSE 7
        end   == start + 7
    IN  SumSlice(b, start, end)

\* Mancala.print_winner: what it reports.
print_winner(b) ==
    LET score0 == score(b, 0)
        score1 == score(b, 1)
    IN  IF score0 = score1 THEN "Tie"
        ELSE IF score0 > score1 THEN "Wins0" ELSE "Wins1"

(***************************************************************************)
(* The interactive move source, get_move.  A line typed by the user is a   *)
(* sequence of characters over a small alphabet.                           *)
(***************************************************************************)
LowerLetters == {"a", "b", "c", "d", "e", "f", "g", "h", "i", "j", "k", "l",
                 "n", "q", "y", "z"}

\* The characters a typed line is made of.
Chars == LowerLetters \cup {"C", "Q", "Y", ".", "7", " "}

\* The lines the user types.
RawInputs ==
    {<<c>> : c \in Chars}
        \cup {<<>>, <<" ", "c", " ">>, <<"a", "b">>, <<"y", "e", "s">>}

\* str.lower on one character of the alphabet
LowerChar(c) ==
    CASE c = "C" -> "c"
      [] c = "Q" -> "q"
      [] c = "Y" -> "y"
      [] OTHER   -> c

lower(s) == [i \in 1..Len(s) |-> LowerChar(s[i])]

\* str.strip: leading and trailing blanks removed
RECURSIVE strip(_)
strip(s) ==
    IF s = <<>> THEN s
    ELSE IF Head(s) = " " THEN strip(Tail(s))
    ELSE IF s[Len(s)] = " " THEN strip(SubSeq(s, 1, Len(s) - 1))
    ELSE s

\* str.isalpha on a one-character string of the alphabet
isalpha(c) == LowerChar(c) \in LowerLetters

\* PITS.find(c): the 0-based index of c in PITS, or -1
find(c) ==
    IF \E i \in 1..Len(PITS) : PITS[i] = c
    THEN (CHOOSE i \in 1..Len(PITS) : PITS[i] = c) - 1
    ELSE -1

\* Variant of get_move that does not call validate_move.
get_move_unchecked(b, player, raw) ==
    LET selection == strip(lower(raw))
    IN  IF selection = <<"q">>
        THEN [kind |-> "exit", pit |-> -1, msg |-> "Thanks"]
        ELSE IF Len(selection) # 1 \/ ~isalpha(selection[1])
        THEN [kind |-> "error", pit |-> -1, msg |-> "SingleLetter"]
        ELSE LET pit == find(selection[1])
             IN  IF pit = -1
                 THEN [kind |-> "error", pit |-> pit, msg |-> "NoSuchPit"]
                 ELSE [kind |-> "move", pit |-> pit, msg |-> ""]

\* One pass of get_move's loop on the typed line raw: the process exits, an
\* error is printed and the prompt repeats, or the pit is returned.
get_move(b, player, raw) ==
    LET selection == strip(lower(raw))
    IN  IF selection = <<"q">>
        THEN [kind |-> "exit", pit |-> -1, msg |-> "Thanks"]
        ELSE IF Len(selection) # 1 \/ ~isalpha(selection[1])
        THEN [kind |-> "error", pit |-> -1, msg |-> "SingleLetter"]
        ELSE LET pit == find(selection[1])
             IN  IF pit = -1
                 THEN [kind |-> "error", pit |-> pit, msg |-> "NoSuchPit"]
                 ELSE IF validate_move(b, pit, player) # "Ok"
                 THEN [kind |-> "error", pit |-> pit,
                       msg |-> validate_move(b, pit, player)]
                 ELSE [kind |-> "move", pit |-> pit, msg |-> ""]

\* One pass of play_again's loop on the typed line raw.
play_again(raw) ==
    LET stripped == lower(strip(raw))
    IN  IF stripped = <<>> THEN "IndexError"
        ELSE IF stripped[1] \notin {"n", "y"} THEN "TypeYN"
        ELSE IF stripped[1] = "y" THEN "yes" ELSE "no"

(***************************************************************************)
(* History of the last operation.                                          *)
(***************************************************************************)
\* The slot incremented by the last pass of distribute_seeds' loop (-1 when
\* the loop makes no pass).
FinalDeposit(b, selected_pit, player_index) ==
    IF b[selected_pit] = 0 THEN -1
    ELSE LET prev == SowLoop(SowStart(b, selected_pit), b[selected_pit] - 1,
                             selected_pit, player_index)
             fin  == SowStep(prev, selected_pit, player_index)
         IN  CHOOSE i \in Slots : fin.board[i] # prev.board[i]

NoTurn ==
    [op |-> "none", pre |-> <<>>, pit |-> -1, player |-> -1,
     ret |-> -1, dep |-> -1, mid |-> <<>>]

(***************************************************************************)
(* Recorded lines of play that the move source may follow beyond MaxMoves. *)
(* Each is a sequence of pit indexes, legal from the initial board.        *)
(***************************************************************************)
Scripts ==
    { <<2, 5, 12, 1, 2, 7, 3, 7, 4, 7, 5>>,
      <<5, 8, 9, 0, 10, 0, 12, 0, 11, 0, 12>>,
      <<2, 1, 10, 3, 9, 0, 5>> }

IsPrefix(s, t) == Len(s) <= Len(t) /\ SubSeq(t, 1, Len(s)) = s

\* The move source may play pit next.
WithinBounds(next) ==
    \/ Len(played) < MaxMoves
    \/ \E s \in Scripts : IsPrefix(Append(played, next), s)

(***************************************************************************)
(* The program: play, play_round and the prompts.                          *)
(***************************************************************************)
Init ==
    /\ board = <<>>
    /\ player_tracker = 0
    /\ pc = "play"
    /\ played = <<>>
    /\ msg = ""
    /\ turn = NoTurn
    /\ calls = 0

\* Variant of the start of a round that keeps the active player of the
\* round before.
PlayRound_keepsPlayer ==
    /\ pc = "play"
    /\ board' = InitialBoard
    /\ pc' = "turn"
    /\ played' = <<>>
    /\ msg' = ""
    /\ turn' = NoTurn
    /\ UNCHANGED <<player_tracker, calls>>

\* play_round, lines 208-210: the board is populated, player 0 is to move.
PlayRound ==
    /\ pc = "play"
    /\ board' = InitialBoard
    /\ player_tracker' = 0
    /\ pc' = "turn"
    /\ played' = <<>>
    /\ msg' = ""
    /\ turn' = NoTurn
    /\ UNCHANGED calls

\* One pass of play_round's loop with a selection that get_move returns:
\* lines 211-218.
TakeTurn(raw) ==
    /\ pc = "turn"
    /\ game_over(board) = FALSE
    /\ LET r == get_move(board, player_tracker, raw)
       IN  /\ r.kind = "move"
           /\ WithinBounds(r.pit)
           /\ LET selected_pit    == r.pit
                  d               == distribute_seeds(board, selected_pit, player_tracker)
                  last_seed_index == d.ret
                  after           == check_capture(d.board, last_seed_index, player_tracker)
              IN  /\ board' = after
                  /\ player_tracker' = next_player(last_seed_index, player_tracker)
                  /\ msg' = IF last_seed_index = Store(player_tracker)
                            THEN "ExtraTurn"
                            ELSE IF after # d.board THEN "Captured" ELSE ""
                  /\ played' = Append(played, selected_pit)
                  /\ turn' = [op |-> "turn", pre |-> board, pit |-> selected_pit,
                              player |-> player_tracker, ret |-> last_seed_index,
                              dep |-> FinalDeposit(board, selected_pit, player_tracker),
                              mid |-> d.board]
    /\ UNCHANGED <<pc, calls>>

\* get_move prints an error and asks again: lines 66-75.
RejectMove(raw) ==
    /\ pc = "turn"
    /\ game_over(board) = FALSE
    /\ LET r == get_move(board, player_tracker, raw)
       IN  /\ r.kind = "error"
           /\ msg' = r.msg
    /\ UNCHANGED <<board, player_tracker, pc, played, turn, calls>>

\* The user types q: sys.exit(0), lines 64-65 and 273-276.
Quit(raw) ==
    /\ pc = "turn"
    /\ game_over(board) = FALSE
    /\ get_move(board, player_tracker, raw).kind = "exit"
    /\ pc' = "exit"
    /\ msg' = "Thanks"
    /\ UNCHANGED <<board, player_tracker, played, turn, calls>>

\* Variant of the end of the round that sweeps each side's remaining seeds
\* into that side's store before the winner is reported.
RoundOver_sweeps ==
    /\ pc = "turn"
    /\ game_over(board) = TRUE
    /\ pc' = "over"
    /\ board' = [i \in Slots |->
                    IF i = 6 THEN SumSlice(board, 0, 7)
                    ELSE IF i = 13 THEN SumSlice(board, 7, 14)
                    ELSE 0]
    /\ msg' = print_winner(board')
    /\ UNCHANGED <<player_tracker, played, turn, calls>>

\* The loop condition fails: print_winner, line 219.
RoundOver ==
    /\ pc = "turn"
    /\ game_over(board) = TRUE
    /\ pc' = "over"
    /\ msg' = print_winner(board)
    /\ UNCHANGED <<board, player_tracker, played, turn, calls>>

\* play_again returns True: play's loop calls play_round again.
PlayAgainYes(raw) ==
    /\ pc = "over"
    /\ play_again(raw) = "yes"
    /\ pc' = "play"
    /\ UNCHANGED <<board, player_tracker, played, msg, turn, calls>>

\* play_again returns False: sys.exit(0).
PlayAgainNo(raw) ==
    /\ pc = "over"
    /\ play_again(raw) = "no"
    /\ pc' = "exit"
    /\ msg' = "Thanks"
    /\ UNCHANGED <<board, player_tracker, played, turn, calls>>

\* play_again asks again.
PlayAgainRetry(raw) ==
    /\ pc = "over"
    /\ play_again(raw) = "TypeYN"
    /\ msg' = "TypeYN"
    /\ UNCHANGED <<board, player_tracker, pc, played, turn, calls>>

\* play_again indexes an empty string: the IndexError ends the program.
PlayAgainCrash(raw) ==
    /\ pc = "over"
    /\ play_again(raw) = "IndexError"
    /\ pc' = "crash"
    /\ msg' = "IndexError"
    /\ UNCHANGED <<board, player_tracker, played, turn, calls>>

Next ==
    \/ PlayRound
    \/ \E raw \in RawInputs : TakeTurn(raw)
    \/ \E raw \in RawInputs : RejectMove(raw)
    \/ \E raw \in RawInputs : Quit(raw)
    \/ RoundOver
    \/ \E raw \in RawInputs : PlayAgainYes(raw)
    \/ \E raw \in RawInputs : PlayAgainNo(raw)
    \/ \E raw \in RawInputs : PlayAgainRetry(raw)
    \/ \E raw \in RawInputs : PlayAgainCrash(raw)

Spec == Init /\ [][Next]_vars

(***************************************************************************)
(* Function-level runs: the engine's operations called directly on a board *)
(* drawn from a bounded family, as a caller or a test of the class does.   *)
(* A board of the family holds n seeds in one slot and bg in every other.  *)
(***************************************************************************)
FnBoards ==
    { [i \in Slots |-> IF i = s THEN n ELSE bg] :
        s \in Slots, n \in 0..MaxSeeds, bg \in 0..MaxBg }

FnInit ==
    /\ board \in FnBoards \cup {InitialBoard}
    /\ player_tracker = 0
    /\ pc = "fn"
    /\ played = <<>>
    /\ msg = ""
    /\ turn = NoTurn
    /\ calls = 0

\* The previous call had these arguments.
SameCall(op, pit, player) ==
    turn.op = op /\ turn.pit = pit /\ turn.player = player

\* Variant of the validation call that picks the seeds up when it accepts.
FnValidate_picksUp(pit, player) ==
    /\ pc = "fn"
    /\ calls < MaxCalls
    /\ calls = 0 \/ SameCall("validate", pit, player)
    /\ msg' = validate_move(board, pit, player)
    /\ board' = IF validate_move(board, pit, player) = "Ok"
                THEN [board EXCEPT ![pit] = 0]
                ELSE board
    /\ turn' = [op |-> "validate", pre |-> board, pit |-> pit, player |-> player,
                ret |-> -1, dep |-> -1, mid |-> board]
    /\ calls' = calls + 1
    /\ UNCHANGED <<player_tracker, pc, played>>

\* validate_move(pit, player), first or repeated.
FnValidate(pit, player) ==
    /\ pc = "fn"
    /\ calls < MaxCalls
    /\ calls = 0 \/ SameCall("validate", pit, player)
    /\ msg' = validate_move(board, pit, player)
    /\ turn' = [op |-> "validate", pre |-> board, pit |-> pit, player |-> player,
                ret |-> -1, dep |-> -1, mid |-> board]
    /\ calls' = calls + 1
    /\ UNCHANGED <<board, player_tracker, pc, played>>

\* distribute_seeds(pit, player) on a move the validator accepts, first or
\* right after that validation.
FnDistribute(pit, player) ==
    /\ pc = "fn"
    /\ calls < MaxCalls
    /\ calls = 0 \/ SameCall("validate", pit, player)
    /\ validate_move(board, pit, player) = "Ok"
    /\ LET d == distribute_seeds(board, pit, player)
       IN  /\ board' = d.board
           /\ turn' = [op |-> "distribute", pre |-> board, pit |-> pit,
                       player |-> player, ret |-> d.ret,
                       dep |-> FinalDeposit(board, pit, player), mid |-> d.board]
    /\ msg' = ""
    /\ calls' = calls + 1
    /\ UNCHANGED <<player_tracker, pc, played>>

\* check_capture(last_seed_index, player): first, repeated, or on the index
\* the preceding distribute_seeds returned.  A capturing call prints the
\* capture message of line 160; a call that does not capture prints nothing.
FnCapture(last_seed_index, player) ==
    /\ pc = "fn"
    /\ calls < MaxCalls
    /\ \/ calls = 0
       \/ SameCall("capture", last_seed_index, player)
       \/ turn.op = "distribute" /\ turn.ret = last_seed_index /\ turn.player = player
    /\ board' = check_capture(board, last_seed_index, player)
    /\ turn' = [op |-> "capture", pre |-> board, pit |-> last_seed_index,
                player |-> player, ret |-> -1, dep |-> -1,
                mid |-> check_capture(board, last_seed_index, player)]
    /\ msg' = IF check_capture(board, last_seed_index, player) # board
              THEN "Captured"
              ELSE ""
    /\ calls' = calls + 1
    /\ UNCHANGED <<player_tracker, pc, played>>

\* score(player), first or repeated.
FnScore(player) ==
    /\ pc = "fn"
    /\ calls < MaxCalls
    /\ calls = 0 \/ SameCall("score", -1, player)
    /\ turn' = [op |-> "score", pre |-> board, pit |-> -1, player |-> player,
                ret |-> score(board, player), dep |-> -1, mid |-> board]
    /\ msg' = ""
    /\ calls' = calls + 1
    /\ UNCHANGED <<board, player_tracker, pc, played>>

\* print_winner(), as the first call.
FnPrintWinner ==
    /\ pc = "fn"
    /\ calls = 0
    /\ calls < MaxCalls
    /\ turn' = [op |-> "winner", pre |-> board, pit |-> -1, player |-> -1,
                ret |-> -1, dep |-> -1, mid |-> board]
    /\ msg' = print_winner(board)
    /\ calls' = calls + 1
    /\ UNCHANGED <<board, player_tracker, pc, played>>

FnNext ==
    \/ \E pit \in Slots, player \in Players : FnValidate(pit, player)
    \/ \E pit \in Slots, player \in Players : FnDistribute(pit, player)
    \/ \E pit \in Slots, player \in Players : FnCapture(pit, player)
    \/ \E player \in Players : FnScore(player)
    \/ FnPrintWinner

FnSpec == FnInit /\ [][FnNext]_vars

(***************************************************************************)
(* Step-level runs of distribute_seeds: the board after every pass of the  *)
(* loop, as print_board shows it.  While the call runs, turn also holds    *)
(* its locals num_seeds, count and count2; ret is the local pit.           *)
(***************************************************************************)
SowInit == FnInit

\* Lines 178-182 of a call the validator accepts.
SowBegin(selected_pit, player_index) ==
    /\ pc = "fn"
    /\ validate_move(board, selected_pit, player_index) = "Ok"
    /\ board' = SowStart(board, selected_pit).board
    /\ turn' = [op |-> "sowing", pre |-> board, pit |-> selected_pit,
                player |-> player_index,
                ret |-> SowStart(board, selected_pit).pit, dep |-> -1,
                mid |-> board,
                num_seeds |-> board[selected_pit],
                count  |-> SowStart(board, selected_pit).count,
                count2 |-> SowStart(board, selected_pit).count2]
    /\ pc' = "sow"
    /\ UNCHANGED <<player_tracker, played, msg, calls>>

\* One pass of the loop, lines 183-194.
SowPass ==
    /\ pc = "sow"
    /\ turn.count < turn.num_seeds
    /\ LET st == SowStep([board |-> board, count |-> turn.count,
                          count2 |-> turn.count2, pit |-> turn.ret],
                         turn.pit, turn.player)
       IN  /\ board' = st.board
           /\ turn' = [turn EXCEPT !.count = st.count, !.count2 = st.count2,
                                   !.ret = st.pit, !.mid = board]
    /\ UNCHANGED <<player_tracker, pc, played, msg, calls>>

\* The loop ends and pit is returned, line 195.
SowReturn ==
    /\ pc = "sow"
    /\ ~(turn.count < turn.num_seeds)
    /\ pc' = "sown"
    /\ UNCHANGED <<board, player_tracker, played, msg, turn, calls>>

SowNext ==
    \/ \E pit \in Slots, player \in Players : SowBegin(pit, player)
    \/ SowPass
    \/ SowReturn

SowSpec == SowInit /\ [][SowNext]_vars

(***************************************************************************)
(* Properties                                                              *)
(***************************************************************************)
\* All seeds on the board.
Total(b) == SumSlice(b, 0, 14)

\* Pits (not store) of player p.
OwnPits(p) == (p * 7)..(p * 7 + 5)

\* The last operation was a move of the round loop.
Moved == turn.op = "turn"

\* C1: Conservation.  Every board of a round, from the initial board on and
\* after any sequence of validated moves (distribute_seeds followed by
\* check_capture), holds 48 seeds over its 14 slots.
C1_Conservation ==
    pc \in {"turn", "over"} => Total(board) = 48

\* A move of a round that sowed past the opponent's store and one that ended
\* in a capture have both been seen: here, a capture.
C1_Witness ==
    /\ Moved
    /\ board # turn.mid
    /\ Total(board) = 48

\* C2: distribute_seeds returns the index of the slot into which the final
\* seed was actually deposited.
C2_ReturnsFinalSlot ==
    turn.op \in {"turn", "distribute"} => turn.ret = turn.dep

\* C3: Capture in a turn.  If the final seed was deposited in a pit of the
\* mover that was empty just before, then after the turn that pit and the
\* opposite pit hold 0 and the mover's store has gained the opposite pit's
\* content plus the landed seed; otherwise the capture rule changes nothing.
C3_TurnCapture ==
    Moved =>
        LET p   == turn.player
            d   == turn.dep
            opp == 12 - d
        IN  IF d \in OwnPits(p) /\ turn.mid[d] = 1
            THEN /\ board[d] = 0
                 /\ board[opp] = 0
                 /\ board[Store(p)] = turn.mid[Store(p)] + turn.mid[opp] + 1
            ELSE board = turn.mid

(***************************************************************************)
(* The sowing path as the rules describe it: the ring of the 13 slots      *)
(* other than the opponent's store OL, in increasing circular order.       *)
(***************************************************************************)
\* The slot at position k (1..13) of the ring without OL.
RingSlot(OL, k) == IF k - 1 < OL THEN k - 1 ELSE k

\* The position on that ring of a slot other than OL.
RingPos(OL, slot) == IF slot < OL THEN slot + 1 ELSE slot

\* The slot that receives the k-th seed sown from pit.
PathSlot(OL, pit, k) == RingSlot(OL, ((RingPos(OL, pit) - 1 + k) % 13) + 1)

\* How many of the first n path positions fall on slot i.
Hits(OL, pit, n, i) == Cardinality({k \in 1..n : PathSlot(OL, pit, k) = i})

\* C4: Sowing path with store-skip.  distribute_seeds(pit, p) on a pit with
\* n >= 1 seeds empties the pit and then gives every slot one seed for each
\* of the first n positions of the path pit+1, pit+2, ... (mod 14, the
\* opponent's store removed) that fall on it; the opponent's store and every
\* slot off the path are unchanged.
C4_SowingPath ==
    turn.op = "distribute" =>
        LET OL == Store(1 - turn.player)
            n  == turn.pre[turn.pit]
        IN  /\ n >= 1
            /\ board[OL] = turn.pre[OL]
            /\ \A i \in Slots :
                  board[i] = (IF i = turn.pit THEN 0 ELSE turn.pre[i])
                                + Hits(OL, turn.pit, n, i)

\* A sowing of at least 13 seeds that passed the opponent's store and lapped
\* back into the selected pit.
C4_Witness ==
    /\ turn.op = "distribute"
    /\ turn.pre[turn.pit] >= 13
    /\ board[turn.pit] >= 1
    /\ board[Store(1 - turn.player)] = turn.pre[Store(1 - turn.player)]

\* C5: Turn pointer.  After a move of the round loop the active player is
\* the mover again if and only if the mover's final seed was deposited in
\* the mover's own store; otherwise it is the other player.
C5_TurnPointer ==
    Moved =>
        /\ (player_tracker = turn.player) <=> (turn.dep = Store(turn.player))
        /\ (player_tracker # turn.player) => (player_tracker = 1 - turn.player)

\* A move whose final seed went into the mover's store: the mover acts again.
C5_Witness ==
    /\ Moved
    /\ pc = "turn"
    /\ turn.dep = Store(turn.player)
    /\ player_tracker = turn.player

\* The sum of slots 0..5 is 0 or the sum of slots 7..12 is 0.
SideEmpty(b) ==
    \/ b[0] + b[1] + b[2] + b[3] + b[4] + b[5] = 0
    \/ b[7] + b[8] + b[9] + b[10] + b[11] + b[12] = 0

\* C6: Terminal condition.  The round is over exactly when one side's six
\* pits are empty: the round loop ends only on such a board, on such a board
\* it can only end (no selection is requested, no move applied, also after
\* an earned extra turn), and once over the board and the moves of the round
\* no longer change.
C6_TerminalCondition ==
    [][ /\ (pc = "turn" /\ SideEmpty(board)) =>
              (pc' = "over" /\ board' = board /\ played' = played)
        /\ (pc = "turn" /\ ~SideEmpty(board)) => pc' # "over"
        /\ pc = "over" => (board' = board /\ played' = played) ]_vars

\* A round that ended right after a move that earned an extra turn, with
\* seeds left on the other side.
C6_Witness ==
    /\ pc = "over"
    /\ Moved
    /\ turn.dep = Store(turn.player)
    /\ SideEmpty(board)
    /\ Total(board) - board[6] - board[13] > 0

\* The outcome the rules give for validating pit for player on board b.
ExpectedOutcome(b, pit, player) ==
    IF pit = 6 \/ pit = 13 THEN "StoreNotSelectable"
    ELSE IF ~(player * 7 <= pit /\ pit <= player * 7 + 6) THEN "NotYourPit"
    ELSE IF b[pit] = 0 THEN "EmptyPit"
    ELSE "Ok"

\* C7: Validator exhaustiveness and precedence.  validate_move yields
\* StoreNotSelectable for index 6 or 13, else NotYourPit for an index outside
\* the player's range, else EmptyPit for an empty pit, else Ok.
C7_Validator ==
    turn.op = "validate" =>
        /\ msg \in {"Ok", "StoreNotSelectable", "NotYourPit", "EmptyPit"}
        /\ msg = ExpectedOutcome(turn.pre, turn.pit, turn.player)

\* An empty pit of the opponent was selected: ownership is reported, not
\* emptiness.
C7_Witness ==
    /\ turn.op = "validate"
    /\ turn.pit \notin {6, 13}
    /\ turn.pre[turn.pit] = 0
    /\ msg = "NotYourPit"

\* The messages get_move prints for a rejected selection.
Rejections == {"SingleLetter", "NoSuchPit", "StoreNotSelectable",
               "NotYourPit", "EmptyPit"}

\* C8: Only validated moves are applied.  In the round loop the board, the
\* active player and the moves played change only by a move whose pit is
\* not a store, belongs to the active player and holds at least one seed;
\* a rejected selection changes neither the board nor the active player.
C8_OnlyValidated ==
    [][ /\ (/\ pc = "turn"
            /\ \/ board' # board
               \/ player_tracker' # player_tracker
               \/ played' # played) =>
              LET pit == turn'.pit
              IN  /\ turn'.op = "turn"
                  /\ turn'.pre = board
                  /\ turn'.player = player_tracker
                  /\ played' = Append(played, pit)
                  /\ pit \notin {6, 13}
                  /\ pit \in OwnPits(player_tracker)
                  /\ board[pit] >= 1
        /\ (pc = "turn" /\ msg' \in Rejections) =>
              (board' = board /\ player_tracker' = player_tracker) ]_vars

\* After at least one move, the active player selected an empty pit of their
\* own and was turned down.
C8_Witness ==
    /\ pc = "turn"
    /\ Moved
    /\ msg = "EmptyPit"
    /\ board = check_capture(turn.mid, turn.ret, turn.player)

\* C9: check_capture(last_index, player) triggers iff last_index is in the
\* player's range, is not the player's store and holds exactly 1 seed; then
\* the store gains the opposite pit's seeds plus 1, both pits become 0 and
\* nothing else changes; otherwise the board is unchanged.
C9_CheckCapture ==
    turn.op = "capture" =>
        LET b     == turn.pre
            last  == turn.pit
            p     == turn.player
            store == IF p = 0 THEN 6 ELSE 13
            opp   == 12 - last
        IN  IF /\ p * 7 <= last /\ last <= p * 7 + 6
               /\ last # store
               /\ b[last] = 1
            THEN /\ board[store] = b[store] + b[opp] + 1
                 /\ board[last] = 0
                 /\ board[opp] = 0
                 /\ \A i \in Slots \ {store, last, opp} : board[i] = b[i]
            ELSE board = b

\* A capture that took more than one seed from the opposite pit.
C9_Witness ==
    /\ turn.op = "capture"
    /\ turn.pit \in OwnPits(turn.player)
    /\ turn.pre[turn.pit] = 1
    /\ turn.pre[12 - turn.pit] >= 2
    /\ board[12 - turn.pit] = 0

\* C10: Store monotonicity.  No step of a round lowers board[6] or board[13].
C10_StoresMonotone ==
    [][ pc = "turn" => (board'[6] >= board[6] /\ board'[13] >= board[13]) ]_vars

\* A capture was made while the capturing player's store already held seeds.
C10_Witness ==
    /\ Moved
    /\ board # turn.mid
    /\ turn.pre[Store(turn.player)] >= 1
    /\ board[Store(turn.player)] > turn.pre[Store(turn.player)]

\* What the rules report for board b: the side with the strictly higher sum
\* of its seven slots, or a tie.
ReportedResult(b) ==
    LET s0 == b[0] + b[1] + b[2] + b[3] + b[4] + b[5] + b[6]
        s1 == b[7] + b[8] + b[9] + b[10] + b[11] + b[12] + b[13]
    IN  IF s0 = s1 THEN "Tie" ELSE IF s0 > s1 THEN "Wins0" ELSE "Wins1"

\* C11: No end-of-round sweep.  The step that ends a round leaves the board
\* exactly as the last move produced it (no pit is emptied into a store) and
\* the result it reports is computed on that unchanged board.
C11_NoSweep ==
    [][ (pc = "turn" /\ pc' = "over") =>
            (board' = board /\ msg' = ReportedResult(board)) ]_vars

\* A round that is over with seeds still lying in the pits of one side.
C11_Witness ==
    /\ pc = "over"
    /\ Moved
    /\ msg \in {"Tie", "Wins0", "Wins1"}
    /\ \E i \in OwnPits(0) \cup OwnPits(1) : board[i] > 0

\* C12: Scoring and winner.  score(p) is the sum of player p's seven slots
\* and leaves the board alone; it is 24 for either player on the initial
\* board; the reported winner is the player with the strictly higher score
\* and a tie is reported exactly when the scores are equal.
C12_Scoring ==
    /\ turn.op = "score" =>
          LET b == turn.pre
              f == turn.player * 7
          IN  /\ turn.ret = b[f] + b[f + 1] + b[f + 2] + b[f + 3]
                              + b[f + 4] + b[f + 5] + b[f + 6]
              /\ board = b
              /\ (\A i \in Slots : b[i] = IF i \in {6, 13} THEN 0 ELSE 4)
                    => turn.ret = 24
    /\ turn.op = "winner" =>
          /\ msg = ReportedResult(turn.pre)
          /\ (msg = "Tie") <=> (score(turn.pre, 0) = score(turn.pre, 1))
          /\ board = turn.pre

\* The score of a player was taken on the initial board.
C12_Witness ==
    /\ turn.op = "score"
    /\ turn.pre = InitialBoard
    /\ turn.ret = 24
    /\ board = InitialBoard

\* C13: validate_move is a pure query.  Whether it accepts or rejects, a call
\* changes neither the board nor the active player, and a second call with
\* the same arguments in the same state gives the same outcome.
C13_ValidatePure ==
    [][ (turn'.op = "validate" /\ calls' = calls + 1) =>
            /\ board' = board
            /\ player_tracker' = player_tracker
            /\ turn.op = "validate" =>
                  (turn'.pit = turn.pit /\ turn'.player = turn.player
                     /\ msg' = msg) ]_vars

\* validate_move was called twice on a pit it accepts.
C13_Witness ==
    /\ turn.op = "validate"
    /\ calls = 2
    /\ msg = "Ok"
    /\ board = turn.pre
    /\ board[turn.pit] >= 1

\* Player 0 has just sown 14 seeds from index 0.
Sowed14 ==
    /\ turn.op = "distribute"
    /\ turn.pit = 0
    /\ turn.player = 0
    /\ turn.pre[0] = 14

\* C14 as stated: the 14 seeds sown from index 0 by player 0 put exactly one
\* seed in every slot except index 13, the last of them landing back at
\* index 0, and index 13 does not increase.
C14_AsStated ==
    Sowed14 =>
        /\ \A i \in Slots \ {13} :
              board[i] = (IF i = 0 THEN 0 ELSE turn.pre[i]) + 1
        /\ turn.dep = 0
        /\ board[13] = turn.pre[13]

\* C14, amended: the 14 seeds sown from index 0 by player 0 put one seed in
\* every slot except index 13 and a second seed in index 1: the 13th seed
\* wraps to land back at index 0, the 14th lands at index 1, and index 13
\* does not increase.
C14_StoreSkip ==
    Sowed14 =>
        /\ \A i \in Slots \ {13} :
              board[i] = (IF i = 0 THEN 0 ELSE turn.pre[i])
                            + (IF i = 1 THEN 2 ELSE 1)
        /\ turn.dep = 1
        /\ board[13] = turn.pre[13]

\* The 14-seed sowing from index 0 has been made on a board with seeds in
\* the other slots.
C14_Witness ==
    /\ Sowed14
    /\ turn.pre[1] = 1
    /\ board[0] = 1
    /\ board[1] = 3

\* C15: Opening move.  From the initial board with player 0 active, the
\* selection of index 0 (4 seeds) empties index 0, puts one seed in each of
\* indexes 1, 2, 3, 4, returns last index 4, which then holds 5 seeds, makes
\* no capture, leaves both stores at 0 and makes player 1 the active player.
C15_OpeningMove ==
    (Moved /\ played = <<0>>) =>
        /\ turn.player = 0
        /\ turn.pit = 0
        /\ \A i \in Slots : turn.pre[i] = IF i \in {6, 13} THEN 0 ELSE 4
        /\ \A i \in Slots :
              turn.mid[i] = IF i = 0 THEN 0
                            ELSE IF i \in 1..4 THEN 5
                            ELSE turn.pre[i]
        /\ turn.ret = 4
        /\ turn.dep = 4
        /\ board[4] = 5
        /\ board = turn.mid
        /\ board[6] = 0
        /\ board[13] = 0
        /\ player_tracker = 1

\* Player 0 has opened the round with index 0 and player 1 is to move.
C15_Witness ==
    /\ Moved
    /\ pc = "turn"
    /\ played = <<0>>
    /\ board[0] = 0
    /\ board[4] = 5
    /\ player_tracker = 1

\* The layout [4,4,4,4,4,4,0,4,4,4,4,4,4,0].
Canonical(b) ==
    /\ DOMAIN b = 0..13
    /\ \A i \in 0..13 : b[i] = IF i = 6 \/ i = 13 THEN 0 ELSE 4

\* C16: Round reset.  Every round, the first and each one started after a
\* round has ended, begins with the canonical board and player 0 active,
\* whatever the board and the active player were before.
C16_RoundReset ==
    [][ (pc = "play" \/ (pc' = "turn" /\ played' = <<>>)) =>
            /\ pc' = "turn"
            /\ played' = <<>>
            /\ Canonical(board')
            /\ player_tracker' = 0 ]_vars

\* Another round is about to start after a round that ended with player 1
\* active and a board that is not the canonical one.
C16_Witness ==
    /\ pc = "play"
    /\ Moved
    /\ ~Canonical(board)
    /\ SideEmpty(board)
    /\ player_tracker = 1

\* C17: Incremental sowing.  distribute_seeds first zeroes the selected pit;
\* then each pass of its loop changes exactly one slot, by +1, the slots being
\* taken in the order of the sowing path; at every intermediate board the
\* seeds on the board plus the seeds not yet placed are the seeds that were
\* on the board before the move.
C17_IncrementalSowing ==
    [][ /\ (pc = "fn" /\ pc' = "sow") =>
              /\ board' = [board EXCEPT ![turn'.pit] = 0]
              /\ turn'.num_seeds = board[turn'.pit]
              /\ Total(board') + turn'.num_seeds = Total(board)
        /\ (pc = "sow" /\ pc' = "sow") =>
              LET k    == turn'.count
                  slot == PathSlot(Store(1 - turn.player), turn.pit, k)
              IN  /\ k = turn.count + 1
                  /\ k <= turn.num_seeds
                  /\ board'[slot] = board[slot] + 1
                  /\ \A i \in Slots \ {slot} : board'[i] = board[i]
                  /\ Total(board') + (turn.num_seeds - k) = Total(turn.pre)
      ]_vars

\* A sowing is under way: seeds have gone past the opponent's store and
\* seeds are still in hand.
C17_Witness ==
    /\ pc = "sow"
    /\ turn.count2 = 1
    /\ turn.count < turn.num_seeds
    /\ Total(board) + (turn.num_seeds - turn.count) = Total(turn.pre)

\* C18: No stuck turn.  Whenever the round loop is about to ask for a move
\* (game_over() is false) the active player owns a non-empty pit, so some
\* selection passes validate_move and get_move can return.
C18_NoStuckTurn ==
    (pc = "turn" /\ game_over(board) = FALSE) =>
        /\ \E pit \in OwnPits(player_tracker) :
              /\ board[pit] >= 1
              /\ validate_move(board, pit, player_tracker) = "Ok"
        /\ \E raw \in RawInputs :
              get_move(board, player_tracker, raw).kind = "move"

\* The active player is asked for a move with a single non-empty pit left.
C18_Witness ==
    /\ pc = "turn"
    /\ Moved
    /\ game_over(board) = FALSE
    /\ Cardinality({pit \in OwnPits(player_tracker) : board[pit] >= 1}) = 1

\* A measure of progress of a round: the seeds in the two stores weigh 241
\* each, a seed in the k-th pit of its side (k = 0..5) weighs k.  With 48
\* seeds on the board it is at most 241 * 48.
Progress(b) ==
    241 * (b[6] + b[13])
        + 1 * (b[1] + b[8]) + 2 * (b[2] + b[9]) + 3 * (b[3] + b[10])
        + 4 * (b[4] + b[11]) + 5 * (b[5] + b[12])

\* C19: Round termination.  Every validated move of a round (with its
\* capture and extra turn) strictly raises a measure that is bounded on the
\* 48-seed boards of a round, so no board of a round is reached twice, every
\* sequence of moves is finite and play can only go on until game_over()
\* is true.
C19_RoundTerminates ==
    /\ pc \in {"turn", "over"} => (Progress(board) >= 0 /\ Progress(board) <= 241 * 48)
    /\ Moved => Progress(board) > Progress(turn.pre)

\* A move that put nothing into a store: only positions advanced.
C19_Witness ==
    /\ Moved
    /\ board[6] = turn.pre[6]
    /\ board[13] = turn.pre[13]
    /\ Progress(board) > Progress(turn.pre)

\* C20: check_capture is idempotent.  A second call of check_capture with
\* the same last index and player, right after the first, leaves the board
\* as the first call left it, whether or not the first call captured.
C20_CaptureIdempotent ==
    [][ (turn.op = "capture" /\ turn'.op = "capture" /\ calls' = calls + 1) =>
            /\ turn'.pit = turn.pit
            /\ turn'.player = turn.player
            /\ board' = board ]_vars

\* check_capture was called a second time after a call that captured: the
\* landing pit and the opposite pit are empty among pits that hold seeds.
C20_Witness ==
    /\ turn.op = "capture"
    /\ calls = 2
    /\ turn.pit \in OwnPits(turn.player)
    /\ turn.pre[turn.pit] = 0
    /\ turn.pre[12 - turn.pit] = 0
    /\ turn.pre[Store(turn.player)] >= 2
    /\ Total(turn.pre) >= 12
    /\ board = turn.pre

====
